---- MODULE Spec2Model ----
(***************************************************************************)
(* Pulse: a cooperative scheduler kernel for periodic tasks (pulse.h).     *)
(*                                                                         *)
(* Two contexts share the kernel: the timer interrupt, which runs          *)
(* pulse_tick_isr() to completion, and the main context, which runs        *)
(* pulse_init, pulse_add_task, pulse_poll and pulse_start.  The main       *)
(* context is modelled by its program counter pc; every critical section   *)
(* of pulse_poll is one step, and the interrupt can be taken between any   *)
(* two steps of the main context.                                          *)
(*                                                                         *)
(* uint32_t values (period_ticks, elapsed_ticks) are kept exactly, as two  *)
(* 16-bit limbs [hi, lo], so that 0xFFFFFFFF and the wrap to 0 are the     *)
(* values of the code.                                                     *)
(***************************************************************************)
EXTENDS Integers, Sequences, FiniteSets, TLC

(***************************************************************************)
(* Bounds of the exploration.                                              *)
(***************************************************************************)
\* Capacity of the task table: the build's -DPULSE_MAX_TASKS (pulse.h:22-24).
PULSE_MAX_TASKS == 2
\* Largest period_ticks given to pulse_add_task.
MaxPeriod == 2
\* No tick is taken once some registered task has this many elapsed ticks.
ElapsedCap == 3
\* Largest number of timer interrupts taken inside one pulse_poll() pass.
MaxPassTicks == 1
\* Largest number of tasks a lockstep run registers.
MaxPlanLen == 3
\* Largest number of time steps (tick, then poll) of a lockstep run.
MaxSteps == 6
MaxIsrDepth == 2
MaxSched == 8

(***************************************************************************)
(* uint32_t as two 16-bit limbs.                                           *)
(***************************************************************************)
Limb == 2^16

U32(n) == [hi |-> n \div Limb, lo |-> n % Limb]

UINT32_MAX == [hi |-> Limb - 1, lo |-> Limb - 1]

U32Lt(a, b) == a.hi < b.hi \/ (a.hi = b.hi /\ a.lo < b.lo)

U32Geq(a, b) == ~U32Lt(a, b)

\* x++ on a uint32_t: modulo 2^32.
U32Inc(a) ==
    IF a.lo < Limb - 1 THEN [hi |-> a.hi, lo |-> a.lo + 1]
    ELSE IF a.hi < Limb - 1 THEN [hi |-> a.hi + 1, lo |-> 0]
    ELSE [hi |-> 0, lo |-> 0]

(***************************************************************************)
(* Task callables: pure functions pulse_state_t -> pulse_state_t.          *)
(***************************************************************************)
NULL == "NULL"

\* The callable registered by the application: a counter that stops at 1,
\* so that a task's state tells whether its callable has run.
TaskFns == {"latch"}

\* The callables of the hosted tests (task0, task1, task2) log their
\* execution and return 0.
TestFns == {"task"}

\* A state-machine style callable (README, task model): three states in a cycle.
StateFns == {"cycle"}

\* The initial states given to the state-machine callables.
StateInits == {0, 2}

Call(f, s) ==
    IF f \in TestFns THEN 0
    ELSE IF f \in StateFns THEN (s + 1) % 3
    ELSE IF s < 1 THEN s + 1 ELSE s

StateInputs == {0}

PeriodInputs == 0 .. MaxPeriod

TickMsInputs == {0, 1, 5}

VARIABLES
    cfg_max_tasks,        \* PULSE_MAX_TASKS of the build
    cfg_run_immediately,  \* PULSE_CFG_RUN_IMMEDIATELY of the build
    cfg_saturate,         \* PULSE_CFG_SATURATE_ELAPSED of the build
    cfg_null_guard,       \* PULSE_CFG_NULL_TICK_GUARD of the build
    tasks,                \* pulse_kernel.tasks
    task_count,           \* pulse_kernel.task_count
    ready_mask,           \* pulse_kernel.ready_mask
    started,              \* pulse_kernel.started
    tick_ms,              \* pulse_kernel.tick_ms
    pc,                   \* where the main context is
    caller,               \* who called pulse_poll: "user" or "start"
    mask,                 \* pulse_poll's local mask
    id,                   \* pulse_poll's local id
    result,               \* value pulse_add_task returned, until the next call of the main context
    passStart,            \* history: ready_mask when the pass was called
    passLog,              \* history: dispatches of the pass, in order: [id, late]
    passTicks,            \* history: interrupts taken during the pass
    since,                \* history: ticks since registration / last dispatch
    ran,                  \* history: task has been dispatched
    plan,                 \* lockstep run: the periods to register, in order
    step,                 \* lockstep run: the test's g_now_tick
    turn,                 \* lockstep run: what drive_ticks() does next
    trace,                \* lockstep run: the test's g_log, <<tick, task_id>>
    args,                 \* history: <<period_ticks, tick>> of the pulse_add_task call that set result
    threaded,             \* history: the state the next invocation of each callable is to receive
    init_ms,              \* history: <<tick_ms>> passed to the last pulse_init call
    irq,                  \* port: the global interrupt enable bit (SREG I, SR GIE)
    timer,                \* port: the period PULSE_PORT_TIMER_INIT armed the timer with, 0 = not armed
    isr,                  \* port: the pulse_tick_isr invocations in progress, innermost last
    sched,                \* paired runs: who acts at each point, "tick" or "main"
    manual                \* paired runs: what the manual run showed after each point

cfg == <<cfg_max_tasks, cfg_run_immediately, cfg_saturate, cfg_null_guard>>
kernel == <<tasks, task_count, ready_mask, started, tick_ms>>
locals == <<pc, caller, mask, id>>
history == <<passStart, passLog, passTicks, since, ran>>
lockstep == <<plan, step, turn, trace>>
port == <<irq, timer, isr>>
twin == <<sched, manual>>
extra == <<threaded, init_ms, port, twin>>
driver == <<lockstep, args, extra>>
vars == <<cfg, kernel, locals, result, history, driver>>

\* the indices of pulse_kernel.tasks[PULSE_MAX_TASKS]
TaskIds == 0 .. (cfg_max_tasks - 1)

(***************************************************************************)
(* ready_mask bit operations.                                              *)
(***************************************************************************)
pulse_task_bit(i) == 2^i

\* (m & bit) != 0, for a one-bit value bit
MaskHas(m, bit) == (m \div bit) % 2 # 0

\* mutant of MaskOr: the bit is assigned ("=" for "|=")
MaskOrAssign(m, bit) == bit

\* m | bit
MaskOr(m, bit) == IF MaskHas(m, bit) THEN m ELSE m + bit

\* mutant of MaskAndNot: the bit is left set
MaskAndNotKeep(m, bit) == m

\* mutant of MaskAndNot: every bit is cleared
MaskAndNotAll(m, bit) == 0

\* m & ~bit
MaskAndNot(m, bit) == IF MaskHas(m, bit) THEN m - bit ELSE m

RECURSIVE ScanUp(_, _)
ScanUp(m, i) ==
    IF i >= cfg_max_tasks THEN -1
    ELSE IF MaskHas(m, pulse_task_bit(i)) THEN i
    ELSE ScanUp(m, i + 1)

RECURSIVE ScanDown(_, _)
ScanDown(m, i) ==
    IF i < 0 THEN -1
    ELSE IF MaskHas(m, pulse_task_bit(i)) THEN i
    ELSE ScanDown(m, i - 1)

\* mutant of pulse_find_lowest_set_bit: the scan starts at index 1
find_lowest_set_bit_from_one(m) == ScanUp(m, 1)

\* mutant of pulse_find_lowest_set_bit: the scan runs from the top
find_highest_set_bit(m) == ScanDown(m, cfg_max_tasks - 1)

pulse_find_lowest_set_bit(m) == ScanUp(m, 0)

\* the ids whose bit is set in m
MaskIds(m) == {i \in TaskIds : MaskHas(m, pulse_task_bit(i))}

(***************************************************************************)
(* pulse_init                                                              *)
(***************************************************************************)
ClearedTask ==
    [running |-> 0, state |-> 0, period_ticks |-> U32(0),
     elapsed_ticks |-> U32(0), tick |-> NULL]

ClampTickMs(t) == IF t = 0 THEN 1 ELSE t

\* result holds <<value>> after pulse_add_task returned, <<>> otherwise
NoResult == <<>>

\* args holds <<period_ticks, tick>> where the arguments are recorded
NoArgs == <<>>

\* nothing is on record about states, pulse_init arguments or the port
NoExtra ==
    /\ threaded = <<>>
    /\ init_ms = NoArgs
    /\ irq = 0
    /\ timer = 0
    /\ isr = <<>>
    /\ sched = <<>>
    /\ manual = <<>>

\* no lockstep run is in progress
NoDriver ==
    /\ plan = <<>>
    /\ step = 0
    /\ turn = "tick"
    /\ trace = <<>>
    /\ args = NoArgs
    /\ NoExtra

Init ==
    /\ cfg_max_tasks = PULSE_MAX_TASKS
    /\ cfg_run_immediately \in {0, 1}
    /\ cfg_saturate \in {0, 1}
    /\ cfg_null_guard \in {0, 1}
    /\ tasks = [i \in TaskIds |-> ClearedTask]
    /\ task_count = 0
    /\ ready_mask = 0
    /\ started = 0
    /\ \E t \in TickMsInputs : tick_ms = ClampTickMs(t)
    /\ pc = "main"
    /\ caller = "user"
    /\ mask = 0
    /\ id = -1
    /\ result = NoResult
    /\ passStart = 0
    /\ passLog = <<>>
    /\ passTicks = 0
    /\ since = [i \in TaskIds |-> 0]
    /\ ran = [i \in TaskIds |-> FALSE]
    /\ NoDriver

\* mutant of ResetKernel: the started flag survives
ResetKernelKeepsStarted(t) ==
    /\ tick_ms' = ClampTickMs(t)
    /\ task_count' = 0
    /\ ready_mask' = 0
    /\ tasks' = [i \in TaskIds |-> ClearedTask]
    /\ result' = NoResult
    /\ since' = [i \in TaskIds |-> 0]
    /\ ran' = [i \in TaskIds |-> FALSE]
    /\ UNCHANGED <<cfg, started, locals, passStart, passLog, passTicks>>

\* what pulse_init(t) writes
ResetKernel(t) ==
    /\ tick_ms' = ClampTickMs(t)
    /\ task_count' = 0
    /\ started' = 0
    /\ ready_mask' = 0
    /\ tasks' = [i \in TaskIds |-> ClearedTask]
    /\ result' = NoResult
    /\ since' = [i \in TaskIds |-> 0]
    /\ ran' = [i \in TaskIds |-> FALSE]
    /\ UNCHANGED <<cfg, locals, passStart, passLog, passTicks>>

\* a call of pulse_init()
InitKernel ==
    /\ pc = "main"
    /\ \E t \in TickMsInputs : ResetKernel(t)

pulse_init ==
    /\ InitKernel
    /\ UNCHANGED driver

(***************************************************************************)
(* pulse_add_task                                                          *)
(***************************************************************************)
InvalidPeriod == -1
NullFunction == -2
CapacityExceeded == -3

\* The callables a caller may pass.  A build without the null guard leaves
\* it to the caller never to pass a null pointer (pulse_poll would call it).
FnInputs == IF cfg_null_guard = 1 THEN TaskFns \cup {NULL} ELSE TaskFns

\* mutant of AddTaskCode: the capacity error loses its sign
AddTaskCodePositive(period, f) ==
    IF period = 0 THEN InvalidPeriod
    ELSE IF cfg_null_guard = 1 /\ f = NULL THEN NullFunction
    ELSE IF task_count >= cfg_max_tasks THEN -CapacityExceeded
    ELSE 0

\* mutant of AddTaskCode: the period is not validated
AddTaskCodeNoPeriodCheck(period, f) ==
    IF cfg_null_guard = 1 /\ f = NULL THEN NullFunction
    ELSE IF task_count >= cfg_max_tasks THEN CapacityExceeded
    ELSE 0

\* mutant of AddTaskCode: ">" for ">=" in the capacity test
AddTaskCodeOffByOne(period, f) ==
    IF period = 0 THEN InvalidPeriod
    ELSE IF cfg_null_guard = 1 /\ f = NULL THEN NullFunction
    ELSE IF task_count > cfg_max_tasks THEN CapacityExceeded
    ELSE 0

\* mutant of AddTaskCode: the capacity is tested first
AddTaskCodeCapacityFirst(period, f) ==
    IF task_count >= cfg_max_tasks THEN CapacityExceeded
    ELSE IF period = 0 THEN InvalidPeriod
    ELSE IF cfg_null_guard = 1 /\ f = NULL THEN NullFunction
    ELSE 0

\* mutant of AddTaskCode: the capacity is not tested
AddTaskCodeNoCapacity(period, f) ==
    IF period = 0 THEN InvalidPeriod
    ELSE IF cfg_null_guard = 1 /\ f = NULL THEN NullFunction
    ELSE 0

\* The value pulse_add_task returns (0 on success).
AddTaskCode(period, f) ==
    IF period = 0 THEN InvalidPeriod
    ELSE IF cfg_null_guard = 1 /\ f = NULL THEN NullFunction
    ELSE IF task_count >= cfg_max_tasks THEN CapacityExceeded
    ELSE 0

\* elapsed_ticks of a new descriptor
InitialElapsed(period) ==
    IF cfg_run_immediately = 1 THEN U32(period) ELSE U32(0)

\* mutant of InitialReady: the bit of the new task is never set
InitialReadyNever(m, idx) == m

\* ready_mask after registering task idx
InitialReady(m, idx) ==
    IF cfg_run_immediately = 1 THEN MaskOr(m, pulse_task_bit(idx)) ELSE m

\* mutant of idx: the count is incremented before it is used
idx_after_increment == task_count + 1

\* the index of the descriptor pulse_add_task fills
idx == task_count

\* mutant of NewTask: init_state is not stored
NewTaskNoState(init_state, period, f) ==
    [running |-> 0, state |-> 0, period_ticks |-> U32(period),
     elapsed_ticks |-> InitialElapsed(period), tick |-> f]

\* mutant of NewTask: period_ticks is not stored
NewTaskNoPeriod(init_state, period, f) ==
    [running |-> 0, state |-> init_state, period_ticks |-> U32(0),
     elapsed_ticks |-> InitialElapsed(period), tick |-> f]

NewTask(init_state, period, f) ==
    [running |-> 0, state |-> init_state, period_ticks |-> U32(period),
     elapsed_ticks |-> InitialElapsed(period), tick |-> f]

\* the call pulse_add_task(init_state, period, f)
AddTask(init_state, period, f) ==
    /\ LET code == AddTaskCode(period, f)
       IN  /\ result' = <<code>>
           /\ IF code = 0
              THEN /\ tasks' = [tasks EXCEPT ![idx] = NewTask(init_state, period, f)]
                   /\ ready_mask' = InitialReady(ready_mask, idx)
                   /\ task_count' = task_count + 1
                   /\ since' = [since EXCEPT ![idx] = 0]
                   /\ ran' = [ran EXCEPT ![idx] = FALSE]
              ELSE UNCHANGED <<tasks, ready_mask, task_count, since, ran>>
    /\ UNCHANGED <<cfg, started, tick_ms, locals, passStart, passLog, passTicks>>

pulse_add_task ==
    /\ pc = "main"
    /\ \E init_state \in StateInputs, period \in PeriodInputs, f \in FnInputs :
         AddTask(init_state, period, f)
    /\ UNCHANGED driver

(***************************************************************************)
(* pulse_tick_isr                                                          *)
(***************************************************************************)
\* mutant of ElapsedInc: the increment saturates under either policy
ElapsedIncSaturate(e) == IF U32Lt(e, UINT32_MAX) THEN U32Inc(e) ELSE e

\* mutant of ElapsedInc: the increment wraps under either policy
ElapsedIncWrap(e) == U32Inc(e)

\* elapsed_ticks++ under the build's overflow policy
ElapsedInc(e) ==
    IF cfg_saturate = 1
    THEN IF U32Lt(e, UINT32_MAX) THEN U32Inc(e) ELSE e
    ELSE U32Inc(e)

\* mutant of TickReady: the running flag is not looked at
TickReadyIgnoreRunning(t) == U32Geq(t.elapsed_ticks, t.period_ticks)

\* mutant of TickReady: ">" for ">="
TickReadyStrict(t) == U32Lt(t.period_ticks, t.elapsed_ticks) /\ t.running = 0

\* the test that guards the bit set
TickReady(t) == U32Geq(t.elapsed_ticks, t.period_ticks) /\ t.running = 0

\* mutant of TickTask: the interrupt also drops the running flag
TickTaskClearsRunning(t) ==
    [t EXCEPT !.elapsed_ticks = ElapsedInc(@), !.running = 0]

\* one descriptor after one iteration of the loop
TickTask(t) == [t EXCEPT !.elapsed_ticks = ElapsedInc(@)]

\* the loop from index i on, over k = [tasks, ready_mask]
RECURSIVE TickLoop(_, _)
TickLoop(k, i) ==
    IF i >= task_count THEN k
    ELSE LET t == TickTask(k.tasks[i])
         IN  TickLoop([tasks |-> [k.tasks EXCEPT ![i] = t],
                       ready_mask |-> IF TickReady(t)
                                      THEN MaskOr(k.ready_mask, pulse_task_bit(i))
                                      ELSE k.ready_mask],
                      i + 1)

\* history: task i has waited two periods or more since its last dispatch
TwoPeriodsLate(i) ==
    since[i] >= 2 * (tasks[i].period_ticks.hi * Limb + tasks[i].period_ticks.lo)

InPass == pc \in {"poll_select", "poll_run", "poll_clear"}

Min(a, b) == IF a < b THEN a ELSE b

\* one run of the interrupt handler
TickIsr ==
    /\ LET k == TickLoop([tasks |-> tasks, ready_mask |-> ready_mask], 0)
       IN  /\ tasks' = k.tasks
           /\ ready_mask' = k.ready_mask
    /\ passTicks' = IF InPass THEN passTicks + 1 ELSE passTicks
    /\ since' = [i \in TaskIds |->
                   IF i < task_count THEN Min(since[i] + 1, ElapsedCap) ELSE since[i]]
    /\ UNCHANGED <<cfg, task_count, started, tick_ms, locals, result,
                   passStart, passLog, ran>>

pulse_tick_isr ==
    /\ \A i \in TaskIds : i < task_count => tasks[i].elapsed_ticks # U32(ElapsedCap)
    /\ InPass => passTicks < MaxPassTicks
    /\ TickIsr
    /\ UNCHANGED driver

(***************************************************************************)
(* pulse_poll                                                              *)
(***************************************************************************)
\* mutant of PollTake: elapsed_ticks is not reset at dispatch
PollTakeKeepElapsed(ts, i) == [ts EXCEPT ![i].running = 1]

\* mutant of PollTake: period_ticks is zeroed in place of elapsed_ticks
PollTakeResetsPeriod(ts, i) == [ts EXCEPT ![i].running = 1, ![i].period_ticks = U32(0)]

\* mutant of PollTake: elapsed_ticks restarts at 1
PollTakeElapsedOne(ts, i) == [ts EXCEPT ![i].running = 1, ![i].elapsed_ticks = U32(1)]

\* the descriptors after the critical section has taken task i
PollTake(ts, i) == [ts EXCEPT ![i].running = 1, ![i].elapsed_ticks = U32(0)]

\* the state the callable of descriptor t leaves
RunTask(t) ==
    IF cfg_null_guard = 1 /\ t.tick = NULL THEN t.state ELSE Call(t.tick, t.state)

\* entry of pulse_poll, for the caller who
EnterPoll(who) ==
    /\ pc' = "poll_select"
    /\ caller' = who
    /\ passStart' = ready_mask
    /\ passLog' = <<>>
    /\ passTicks' = 0
    /\ UNCHANGED <<mask, id>>

\* a call of pulse_poll() from the application
CallPoll ==
    /\ pc = "main"
    /\ EnterPoll("user")
    /\ result' = NoResult
    /\ UNCHANGED <<cfg, kernel, since, ran>>

\* the user's loop calls pulse_poll()
PollCall ==
    /\ CallPoll
    /\ UNCHANGED driver

\* first critical section, a task is ready: take the lowest one
Dispatch ==
    /\ pc = "poll_select"
    /\ pulse_find_lowest_set_bit(ready_mask) >= 0
    /\ mask' = ready_mask
    /\ id' = pulse_find_lowest_set_bit(ready_mask)
    /\ ready_mask' = MaskAndNot(ready_mask, pulse_task_bit(id'))
    /\ tasks' = PollTake(tasks, id')
    /\ pc' = "poll_run"
    /\ passLog' = Append(passLog, [id |-> id', late |-> TwoPeriodsLate(id')])
    /\ since' = [since EXCEPT ![id'] = 0]
    /\ ran' = [ran EXCEPT ![id'] = TRUE]
    /\ UNCHANGED <<cfg, task_count, started, tick_ms, caller, result,
                   passStart, passTicks>>

PollDispatch ==
    /\ Dispatch
    /\ UNCHANGED driver

\* first critical section, nothing is ready: pulse_poll returns
ReturnFromPoll ==
    /\ pc = "poll_select"
    /\ pulse_find_lowest_set_bit(ready_mask) < 0
    /\ mask' = ready_mask
    /\ id' = -1
    /\ pc' = IF caller = "user" THEN "main" ELSE "start_idle"
    /\ passStart' = 0
    /\ passLog' = <<>>
    /\ passTicks' = 0
    /\ UNCHANGED <<cfg, kernel, caller, result, since, ran>>

PollReturn ==
    /\ ReturnFromPoll
    /\ UNCHANGED driver

\* the callable runs and its result is stored
RunCallable ==
    /\ pc = "poll_run"
    /\ tasks' = [tasks EXCEPT ![id].state = RunTask(tasks[id])]
    /\ pc' = "poll_clear"
    /\ UNCHANGED <<cfg, task_count, ready_mask, started, tick_ms, caller, mask, id,
                   result, history>>

PollRun ==
    /\ RunCallable
    /\ UNCHANGED driver

\* mutant of PollFinish: the running flag is left set
PollFinishKeepRunning(ts, i) == ts

\* the descriptors after the second critical section
PollFinish(ts, i) == [ts EXCEPT ![i].running = 0]

\* second critical section: running is cleared
ClearRunning ==
    /\ pc = "poll_clear"
    /\ tasks' = PollFinish(tasks, id)
    /\ pc' = "poll_select"
    /\ mask' = 0   \* mask and id are dead from here to the next critical
    /\ id' = -1    \* section, which assigns both
    /\ UNCHANGED <<cfg, task_count, ready_mask, started, tick_ms, caller,
                   result, history>>

PollClear ==
    /\ ClearRunning
    /\ UNCHANGED driver

(***************************************************************************)
(* pulse_start                                                             *)
(***************************************************************************)
\* mutant of Start: starting also empties the ready set
StartClearsReady ==
    /\ pc = "main"
    /\ started = 0
    /\ started' = 1
    /\ ready_mask' = 0
    /\ EnterPoll("start")
    /\ result' = NoResult
    /\ UNCHANGED <<cfg, tasks, task_count, tick_ms, since, ran>>

\* not yet started: mark started, arm the timer, enter the loop
Start ==
    /\ pc = "main"
    /\ started = 0
    /\ started' = 1
    /\ EnterPoll("start")
    /\ result' = NoResult
    /\ UNCHANGED <<cfg, tasks, task_count, ready_mask, tick_ms, since, ran>>

pulse_start ==
    /\ Start
    /\ UNCHANGED driver

\* the loop of pulse_start: idle hook, then pulse_poll again
IdleThenPoll ==
    /\ pc = "start_idle"
    /\ EnterPoll("start")
    /\ UNCHANGED <<cfg, kernel, result, since, ran>>

StartLoop ==
    /\ IdleThenPoll
    /\ UNCHANGED driver

Next ==
    \/ pulse_init
    \/ pulse_add_task
    \/ pulse_tick_isr
    \/ PollCall
    \/ PollDispatch
    \/ PollReturn
    \/ PollRun
    \/ PollClear
    \/ pulse_start
    \/ StartLoop

Spec == Init /\ [][Next]_vars

(***************************************************************************)
(* The kernel after a long uptime: tasks registered and never polled while *)
(* the timer interrupt has run 2^32 - 2 times or more, so that every       *)
(* elapsed_ticks is one short of 0xFFFFFFFF and every ready bit is set.    *)
(***************************************************************************)
U32Pred(a) == IF a.lo > 0 THEN [hi |-> a.hi, lo |-> a.lo - 1]
              ELSE [hi |-> a.hi - 1, lo |-> Limb - 1]

LateTask(p) ==
    [running |-> 0, state |-> 0, period_ticks |-> U32(p),
     elapsed_ticks |-> U32Pred(UINT32_MAX), tick |-> "latch"]

InitUptime ==
    /\ cfg_max_tasks = PULSE_MAX_TASKS
    /\ cfg_run_immediately \in {0, 1}
    /\ cfg_saturate \in {0, 1}
    /\ cfg_null_guard \in {0, 1}
    /\ \E n \in 1 .. PULSE_MAX_TASKS, ps \in [TaskIds -> 1 .. MaxPeriod] :
         /\ tasks = [i \in TaskIds |-> IF i < n THEN LateTask(ps[i]) ELSE ClearedTask]
         /\ task_count = n
         /\ ready_mask = 2^n - 1
         /\ since = [i \in TaskIds |-> IF i < n THEN ElapsedCap ELSE 0]
    /\ started = 0
    /\ tick_ms = 1
    /\ pc = "main"
    /\ caller = "user"
    /\ mask = 0
    /\ id = -1
    /\ result = NoResult
    /\ passStart = 0
    /\ passLog = <<>>
    /\ passTicks = 0
    /\ ran = [i \in TaskIds |-> FALSE]
    /\ NoDriver

\* Spec, and the same program started from the long-uptime states as well
SpecUptime == (Init \/ InitUptime) /\ [][Next]_vars

(***************************************************************************)
(* The kernel driven in lockstep, as the hosted tests drive it             *)
(* (test_pulse.c): pulse_init(1), one pulse_add_task per period of the     *)
(* plan, then drive_ticks(): g_now_tick = i + 1, pulse_tick_isr(),         *)
(* pulse_poll(), for each time step.  Every callable logs                  *)
(* <<g_now_tick, task_id>> when it runs.                                   *)
(***************************************************************************)
\* PULSE_MAX_TASKS of the test build
TestMaxTasks == 8

\* the periods the tests register, and period 1
LockstepPeriods == {1, 2, 3, 4, 6}

Plans == UNION {[1 .. n -> LockstepPeriods] : n \in 1 .. MaxPlanLen}

\* the state after pulse_init(1u) in a test build, with a plan to carry out
InitLockstep ==
    /\ cfg_max_tasks = TestMaxTasks
    /\ cfg_run_immediately \in {0, 1}
    /\ cfg_saturate \in {0, 1}
    /\ cfg_null_guard \in {0, 1}
    /\ tasks = [i \in TaskIds |-> ClearedTask]
    /\ task_count = 0
    /\ ready_mask = 0
    /\ started = 0
    /\ tick_ms = ClampTickMs(1)
    /\ pc = "main"
    /\ caller = "user"
    /\ mask = 0
    /\ id = -1
    /\ result = NoResult
    /\ passStart = 0
    /\ passLog = <<>>
    /\ passTicks = 0
    /\ since = [i \in TaskIds |-> 0]
    /\ ran = [i \in TaskIds |-> FALSE]
    /\ plan \in Plans
    /\ step = 0
    /\ turn = "tick"
    /\ trace = <<>>
    /\ args = NoArgs
    /\ NoExtra

\* assert(pulse_add_task(0, period, taskN) == 0), for the next period of the plan
LockstepAddTask ==
    /\ pc = "main"
    /\ step = 0
    /\ task_count < Len(plan)
    /\ AddTask(0, plan[task_count + 1], "task")
    /\ result' = <<0>>
    /\ UNCHANGED driver

\* drive_ticks: g_now_tick = i + 1; pulse_tick_isr();
LockstepTick ==
    /\ pc = "main"
    /\ task_count = Len(plan)
    /\ turn = "tick"
    /\ step < MaxSteps
    /\ TickIsr
    /\ step' = step + 1
    /\ turn' = "poll"
    /\ UNCHANGED <<plan, trace, args, extra>>

\* drive_ticks: pulse_poll();
LockstepPoll ==
    /\ turn = "poll"
    /\ CallPoll
    /\ UNCHANGED driver

\* the callable runs: log_exec(task_id)
LockstepRun ==
    /\ RunCallable
    /\ trace' = Append(trace, <<step, id>>)
    /\ UNCHANGED <<plan, step, turn, args, extra>>

\* pulse_poll() returns to drive_ticks
LockstepReturn ==
    /\ ReturnFromPoll
    /\ turn' = "tick"
    /\ UNCHANGED <<plan, step, trace, args, extra>>

NextLockstep ==
    \/ LockstepAddTask
    \/ LockstepTick
    \/ LockstepPoll
    \/ PollDispatch
    \/ LockstepRun
    \/ PollClear
    \/ LockstepReturn

SpecLockstep == InitLockstep /\ [][NextLockstep]_vars

(***************************************************************************)
(* The startup phase with the arguments of pulse_add_task on record: the   *)
(* application calls pulse_init, pulse_add_task and pulse_poll while the   *)
(* timer interrupt runs.                                                   *)
(***************************************************************************)
\* The callables a call may pass: a null pointer also where the call stores
\* no descriptor (it returns before, or the null guard rejects it).
FnArgs(period) ==
    IF cfg_null_guard = 1 \/ period = 0 \/ task_count >= cfg_max_tasks
    THEN TaskFns \cup {NULL}
    ELSE TaskFns

RegisterInit ==
    /\ InitKernel
    /\ args' = NoArgs
    /\ UNCHANGED <<lockstep, extra>>

RegisterCall ==
    /\ pc = "main"
    /\ \E init_state \in StateInputs, period \in PeriodInputs :
         \E f \in FnArgs(period) :
             /\ AddTask(init_state, period, f)
             /\ args' = <<period, f>>
    /\ UNCHANGED <<lockstep, extra>>

RegisterPoll ==
    /\ CallPoll
    /\ args' = NoArgs
    /\ UNCHANGED <<lockstep, extra>>

NextRegister ==
    \/ RegisterInit
    \/ RegisterCall
    \/ RegisterPoll
    \/ pulse_tick_isr
    \/ PollDispatch
    \/ PollReturn
    \/ PollRun
    \/ PollClear

SpecRegister == Init /\ [][NextRegister]_vars

(***************************************************************************)
(* A callable that has not returned for 2^32 - 1 ticks: task 0 was         *)
(* dispatched and is still running, its elapsed_ticks has reached          *)
(* 0xFFFFFFFF; the other registered task became ready meanwhile and has    *)
(* not been dispatched since.                                              *)
(***************************************************************************)
RunningLateTask(p) ==
    [running |-> 1, state |-> 0, period_ticks |-> U32(p),
     elapsed_ticks |-> UINT32_MAX, tick |-> "latch"]

WaitingLateTask(p) ==
    [running |-> 0, state |-> 0, period_ticks |-> U32(p),
     elapsed_ticks |-> UINT32_MAX, tick |-> "latch"]

InitWrap ==
    /\ cfg_max_tasks = PULSE_MAX_TASKS
    /\ cfg_run_immediately \in {0, 1}
    /\ cfg_saturate \in {0, 1}
    /\ cfg_null_guard \in {0, 1}
    /\ \E n \in 1 .. PULSE_MAX_TASKS, ps \in [TaskIds -> 1 .. MaxPeriod] :
         /\ tasks = [i \in TaskIds |->
                        IF i = 0 THEN RunningLateTask(ps[i])
                        ELSE IF i < n THEN WaitingLateTask(ps[i])
                        ELSE ClearedTask]
         /\ task_count = n
         /\ ready_mask = 2^n - 2
         /\ since = [i \in TaskIds |-> IF i < n THEN ElapsedCap ELSE 0]
    /\ started = 0
    /\ tick_ms = 1
    /\ pc = "poll_run"
    /\ caller = "user"
    /\ mask = 1
    /\ id = 0
    /\ result = NoResult
    /\ passStart = 1
    /\ passLog = <<[id |-> 0, late |-> FALSE]>>
    /\ passTicks = 0
    /\ ran = [i \in TaskIds |-> i = 0]
    /\ NoDriver

SpecWrap == InitWrap /\ [][Next]_vars

(***************************************************************************)
(* The kernel running state-machine callables, with the state each         *)
(* callable is to receive next on record: the init_state of its            *)
(* registration, then the value its last invocation returned.              *)
(***************************************************************************)
\* the default build but for the null guard (pulse.h:26-41)
InitState ==
    /\ cfg_max_tasks = PULSE_MAX_TASKS
    /\ cfg_run_immediately = 1
    /\ cfg_saturate = 1
    /\ cfg_null_guard \in {0, 1}
    /\ tasks = [i \in TaskIds |-> ClearedTask]
    /\ task_count = 0
    /\ ready_mask = 0
    /\ started = 0
    /\ tick_ms = ClampTickMs(1)
    /\ pc = "main"
    /\ caller = "user"
    /\ mask = 0
    /\ id = -1
    /\ result = NoResult
    /\ passStart = 0
    /\ passLog = <<>>
    /\ passTicks = 0
    /\ since = [i \in TaskIds |-> 0]
    /\ ran = [i \in TaskIds |-> FALSE]
    /\ plan = <<>>
    /\ step = 0
    /\ turn = "tick"
    /\ trace = <<>>
    /\ args = NoArgs
    /\ threaded = [i \in TaskIds |-> 0]
    /\ init_ms = NoArgs
    /\ irq = 0
    /\ timer = 0
    /\ isr = <<>>
    /\ sched = <<>>
    /\ manual = <<>>

StateAddTask ==
    /\ pc = "main"
    /\ \E init_state \in StateInits, period \in PeriodInputs, f \in StateFns :
         /\ AddTask(init_state, period, f)
         /\ threaded' = IF task_count' = task_count
                         THEN threaded
                         ELSE [threaded EXCEPT ![task_count] = init_state]
    /\ UNCHANGED <<lockstep, args, init_ms, port, twin>>

\* the callable runs: what it returns is what its next invocation is to receive
StateRun ==
    /\ RunCallable
    /\ threaded' = [threaded EXCEPT ![id] = Call(tasks[id].tick, threaded[id])]
    /\ UNCHANGED <<lockstep, args, init_ms, port, twin>>

NextState ==
    \/ StateAddTask
    \/ pulse_tick_isr
    \/ PollCall
    \/ PollDispatch
    \/ PollReturn
    \/ StateRun
    \/ PollClear

SpecState == InitState /\ [][NextState]_vars

(***************************************************************************)
(* The kernel on an AVR or MSP430 class port.  The port's primitives work  *)
(* on the global interrupt enable flag irq: the critical-section entry     *)
(* clears it and the exit sets it, whatever it was.  The timer interrupt   *)
(* is taken only while irq = 1 and the timer is armed; the hardware clears *)
(* irq on entry and the return from the interrupt sets it.  The main       *)
(* thread runs only while no interrupt handler is active.  isr is the      *)
(* stack of active pulse_tick_isr invocations, each with its loop index i  *)
(* and position at; cs tells whether the invocation is between its own     *)
(* PULSE_PORT_ENTER_CRITICAL and PULSE_PORT_EXIT_CRITICAL.                 *)
(* The idle hook is application code: it may return, or call pulse_init    *)
(* or pulse_start, and pulse_add_task while the kernel is not started      *)
(* (tasks are registered at startup, README.md line 58).                   *)
(***************************************************************************)
PULSE_PORT_DISABLE_GLOBAL_IRQ(q) == 0
PULSE_PORT_ENABLE_GLOBAL_IRQ(q) == 1

\* mutant of PULSE_PORT_ENTER_CRITICAL: the entry leaves the flag alone
EnterCriticalNoop(q) == q

PULSE_PORT_ENTER_CRITICAL(q) == 0
PULSE_PORT_EXIT_CRITICAL(q) == 1

\* the flag after the hardware has vectored to the handler
InterruptEntry(q) == 0
\* the flag after the handler's return instruction
InterruptReturn(q) == 1

\* the periods the application passes to pulse_init
PortTickMs == {0, 5}

\* the tasks the application registers: due every tick, or the rejected
\* period 0
PortPeriods == {0, 1}

InitPort ==
    /\ cfg_max_tasks = PULSE_MAX_TASKS
    /\ cfg_run_immediately \in {0, 1}
    /\ cfg_saturate = 1
    /\ cfg_null_guard = 0
    /\ tasks = [i \in TaskIds |-> ClearedTask]
    /\ task_count = 0
    /\ ready_mask = 0
    /\ started = 0
    /\ \E t \in PortTickMs : tick_ms = ClampTickMs(t) /\ init_ms = <<t>>
    /\ pc = "main"
    /\ caller = "user"
    /\ mask = 0
    /\ id = -1
    /\ result = NoResult
    /\ passStart = 0
    /\ passLog = <<>>
    /\ passTicks = 0
    /\ since = [i \in TaskIds |-> 0]
    /\ ran = [i \in TaskIds |-> FALSE]
    /\ plan = <<>>
    /\ step = 0
    /\ turn = "tick"
    /\ trace = <<>>
    /\ args = NoArgs
    /\ threaded = <<>>
    /\ irq = PULSE_PORT_DISABLE_GLOBAL_IRQ(0)
    /\ timer = 0
    /\ isr = <<>>
    /\ sched = <<>>
    /\ manual = <<>>

\* what the port-level steps never touch
PortRest == <<cfg, history, lockstep, args, threaded, twin>>

\* the main thread is where application code calls the kernel
AtCallSite == isr = <<>> /\ pc \in {"main", "start_idle"}

PortInit ==
    /\ AtCallSite
    /\ \E t \in PortTickMs : ResetKernel(t) /\ init_ms' = <<t>>
    /\ irq' = PULSE_PORT_DISABLE_GLOBAL_IRQ(PULSE_PORT_DISABLE_GLOBAL_IRQ(irq))
    /\ UNCHANGED <<lockstep, args, threaded, timer, isr, twin>>

PortAddTask ==
    /\ AtCallSite
    /\ started = 0
    /\ \E init_state \in StateInputs, period \in PortPeriods, f \in TestFns :
         /\ AddTask(init_state, period, f)
         /\ irq' = IF AddTaskCode(period, f) \in {InvalidPeriod, NullFunction}
                   THEN irq
                   ELSE PULSE_PORT_EXIT_CRITICAL(PULSE_PORT_ENTER_CRITICAL(irq))
    /\ UNCHANGED <<lockstep, args, threaded, init_ms, timer, isr, twin>>

\* manual integration: the application arms its own tick source
PortManualTimer ==
    /\ isr = <<>>
    /\ pc = "main"
    /\ timer = 0
    /\ timer' = tick_ms
    /\ irq' = PULSE_PORT_ENABLE_GLOBAL_IRQ(irq)
    /\ UNCHANGED <<kernel, locals, result, init_ms, isr, PortRest>>

\* manual integration: the application's loop calls pulse_poll()
PortPollCall ==
    /\ isr = <<>>
    /\ pc = "main"
    /\ pc' = "poll_select"
    /\ caller' = "user"
    /\ result' = NoResult
    /\ UNCHANGED <<kernel, mask, id, init_ms, port, PortRest>>

\* pulse_start(), started clear
PortStart ==
    /\ AtCallSite
    /\ started = 0
    /\ started' = 1
    /\ timer' = tick_ms
    /\ irq' = PULSE_PORT_ENABLE_GLOBAL_IRQ(irq)
    /\ pc' = "poll_select"
    /\ caller' = "start"
    /\ result' = NoResult
    /\ UNCHANGED <<tasks, task_count, ready_mask, tick_ms, mask, id, init_ms, isr,
                   PortRest>>

\* mutant of PortStartAgain: the loop of pulse_start is entered again
PortStartAgainPolls ==
    /\ AtCallSite
    /\ started # 0
    /\ pc' = "poll_select"
    /\ caller' = "start"
    /\ result' = NoResult
    /\ UNCHANGED <<kernel, mask, id, init_ms, port, PortRest>>

\* pulse_start(), started set: the idle loop that never ends
PortStartAgain ==
    /\ AtCallSite
    /\ started # 0
    /\ pc' = "idle_forever"
    /\ result' = NoResult
    /\ UNCHANGED <<kernel, caller, mask, id, init_ms, port, PortRest>>

\* PULSE_PORT_IDLE_HOOK() in the loop that never ends
PortIdleForever ==
    /\ isr = <<>>
    /\ pc = "idle_forever"
    /\ UNCHANGED vars

\* PULSE_PORT_IDLE_HOOK() returns to the loop of pulse_start
PortStartLoop ==
    /\ isr = <<>>
    /\ pc = "start_idle"
    /\ pc' = "poll_select"
    /\ caller' = "start"
    /\ UNCHANGED <<kernel, mask, id, result, init_ms, port, PortRest>>

\* pulse_poll, statement by statement
PortPollEnter ==
    /\ isr = <<>>
    /\ pc = "poll_select"
    /\ irq' = PULSE_PORT_ENTER_CRITICAL(irq)
    /\ pc' = "poll_capture"
    /\ UNCHANGED <<kernel, caller, mask, id, result, init_ms, timer, isr, PortRest>>

PortPollCapture ==
    /\ isr = <<>>
    /\ pc = "poll_capture"
    /\ mask' = ready_mask
    /\ id' = pulse_find_lowest_set_bit(ready_mask)
    /\ pc' = IF id' >= 0 THEN "poll_bit" ELSE "poll_exit"
    /\ UNCHANGED <<kernel, caller, result, init_ms, port, PortRest>>

PortPollBit ==
    /\ isr = <<>>
    /\ pc = "poll_bit"
    /\ ready_mask' = MaskAndNot(ready_mask, pulse_task_bit(id))
    /\ pc' = "poll_running"
    /\ UNCHANGED <<tasks, task_count, started, tick_ms, caller, mask, id, result,
                   init_ms, port, PortRest>>

PortPollRunning ==
    /\ isr = <<>>
    /\ pc = "poll_running"
    /\ tasks' = [tasks EXCEPT ![id].running = 1]
    /\ pc' = "poll_elapsed"
    /\ UNCHANGED <<task_count, ready_mask, started, tick_ms, caller, mask, id,
                   result, init_ms, port, PortRest>>

PortPollElapsed ==
    /\ isr = <<>>
    /\ pc = "poll_elapsed"
    /\ tasks' = [tasks EXCEPT ![id].elapsed_ticks = U32(0)]
    /\ pc' = "poll_exit"
    /\ UNCHANGED <<task_count, ready_mask, started, tick_ms, caller, mask, id,
                   result, init_ms, port, PortRest>>

PortPollExit ==
    /\ isr = <<>>
    /\ pc = "poll_exit"
    /\ irq' = PULSE_PORT_EXIT_CRITICAL(irq)
    /\ pc' = IF id >= 0 THEN "poll_run"
             ELSE IF caller = "user" THEN "main" ELSE "start_idle"
    /\ UNCHANGED <<kernel, caller, mask, id, result, init_ms, timer, isr, PortRest>>

PortPollRun ==
    /\ isr = <<>>
    /\ pc = "poll_run"
    /\ tasks' = [tasks EXCEPT ![id].state = RunTask(tasks[id])]
    /\ pc' = "poll_clear"
    /\ UNCHANGED <<task_count, ready_mask, started, tick_ms, caller, mask, id,
                   result, init_ms, port, PortRest>>

PortPollClearEnter ==
    /\ isr = <<>>
    /\ pc = "poll_clear"
    /\ irq' = PULSE_PORT_ENTER_CRITICAL(irq)
    /\ pc' = "poll_clear_cs"
    /\ UNCHANGED <<kernel, caller, mask, id, result, init_ms, timer, isr, PortRest>>

PortPollClearRunning ==
    /\ isr = <<>>
    /\ pc = "poll_clear_cs"
    /\ tasks' = PollFinish(tasks, id)
    /\ pc' = "poll_clear_exit"
    /\ UNCHANGED <<task_count, ready_mask, started, tick_ms, caller, mask, id,
                   result, init_ms, port, PortRest>>

PortPollClearExit ==
    /\ isr = <<>>
    /\ pc = "poll_clear_exit"
    /\ irq' = PULSE_PORT_EXIT_CRITICAL(irq)
    /\ pc' = "poll_select"
    /\ mask' = 0
    /\ id' = -1
    /\ UNCHANGED <<kernel, caller, result, init_ms, timer, isr, PortRest>>

\* the innermost active invocation of pulse_tick_isr
Top == isr[Len(isr)]

\* the stack with its innermost invocation replaced by frame
WithTop(frame) == [isr EXCEPT ![Len(isr)] = frame]

\* the timer expires and the hardware vectors to the handler
PortInterrupt ==
    /\ irq = 1
    /\ timer > 0
    /\ Len(isr) < MaxIsrDepth
    /\ \A i \in TaskIds :
         i < task_count => U32Lt(tasks[i].elapsed_ticks, U32(ElapsedCap))
    /\ irq' = InterruptEntry(irq)
    /\ isr' = Append(isr, [i |-> 0, at |-> "inc", cs |-> FALSE])
    /\ UNCHANGED <<kernel, locals, result, init_ms, timer, PortRest>>

\* pulse_tick_isr, statement by statement
IsrInc ==
    /\ isr # <<>>
    /\ Top.at = "inc"
    /\ Top.i < task_count
    /\ tasks' = [tasks EXCEPT ![Top.i] = TickTask(@)]
    /\ isr' = WithTop([Top EXCEPT !.at = "test"])
    /\ UNCHANGED <<task_count, ready_mask, started, tick_ms, locals, result,
                   init_ms, irq, timer, PortRest>>

IsrTest ==
    /\ isr # <<>>
    /\ Top.at = "test"
    /\ isr' = WithTop(IF TickReady(tasks[Top.i])
                      THEN [Top EXCEPT !.at = "enter"]
                      ELSE [Top EXCEPT !.at = "inc", !.i = @ + 1])
    /\ UNCHANGED <<kernel, locals, result, init_ms, irq, timer, PortRest>>

IsrEnter ==
    /\ isr # <<>>
    /\ Top.at = "enter"
    /\ irq' = PULSE_PORT_ENTER_CRITICAL(irq)
    /\ isr' = WithTop([Top EXCEPT !.at = "set", !.cs = TRUE])
    /\ UNCHANGED <<kernel, locals, result, init_ms, timer, PortRest>>

IsrSet ==
    /\ isr # <<>>
    /\ Top.at = "set"
    /\ ready_mask' = MaskOr(ready_mask, pulse_task_bit(Top.i))
    /\ isr' = WithTop([Top EXCEPT !.at = "exit"])
    /\ UNCHANGED <<tasks, task_count, started, tick_ms, locals, result,
                   init_ms, irq, timer, PortRest>>

IsrExit ==
    /\ isr # <<>>
    /\ Top.at = "exit"
    /\ irq' = PULSE_PORT_EXIT_CRITICAL(irq)
    /\ isr' = WithTop([Top EXCEPT !.at = "inc", !.i = @ + 1, !.cs = FALSE])
    /\ UNCHANGED <<kernel, locals, result, init_ms, timer, PortRest>>

IsrReturn ==
    /\ isr # <<>>
    /\ Top.at = "inc"
    /\ Top.i >= task_count
    /\ irq' = InterruptReturn(irq)
    /\ isr' = SubSeq(isr, 1, Len(isr) - 1)
    /\ UNCHANGED <<kernel, locals, result, init_ms, timer, PortRest>>

NextPort ==
    \/ PortInit
    \/ PortAddTask
    \/ PortManualTimer
    \/ PortPollCall
    \/ PortStart
    \/ PortStartAgain
    \/ PortIdleForever
    \/ PortStartLoop
    \/ PortPollEnter
    \/ PortPollCapture
    \/ PortPollBit
    \/ PortPollRunning
    \/ PortPollElapsed
    \/ PortPollExit
    \/ PortPollRun
    \/ PortPollClearEnter
    \/ PortPollClearRunning
    \/ PortPollClearExit
    \/ PortInterrupt
    \/ IsrInc
    \/ IsrTest
    \/ IsrEnter
    \/ IsrSet
    \/ IsrExit
    \/ IsrReturn

SpecPort == InitPort /\ [][NextPort]_vars

(***************************************************************************)
(* The two integration patterns of the README, run one after the other on  *)
(* the same registrations and the same schedule.  A schedule says, point   *)
(* by point, whether the timer interrupt runs pulse_tick_isr or the main   *)
(* context takes its next step.  First the application integrates by hand  *)
(* (its loop calls pulse_poll) and what each point leaves is recorded in   *)
(* manual; then the machine is reset, the same tasks are registered and    *)
(* the application calls pulse_start.  Here plan holds the periods, step   *)
(* the schedule point reached, turn the pattern ("manual" or "start") and  *)
(* trace the ids dispatched so far in the current run.                     *)
(***************************************************************************)
TwinPlans == UNION {[1 .. n -> 1 .. MaxPeriod] : n \in 1 .. PULSE_MAX_TASKS}

Schedules == [1 .. MaxSched -> {"tick", "main"}]

\* where the main context is, the application's loop and the loop of
\* pulse_start being the same place
LoopPoint == IF pc \in {"main", "start_idle"} THEN "loop" ELSE pc

\* what a run shows at a schedule point
Snap ==
    [tasks |-> tasks, ready_mask |-> ready_mask, dispatched |-> trace,
     at |-> LoopPoint]

InitTwin ==
    /\ cfg_max_tasks = PULSE_MAX_TASKS
    /\ cfg_run_immediately \in {0, 1}
    /\ cfg_saturate = 1
    /\ cfg_null_guard = 1
    /\ tasks = [i \in TaskIds |-> ClearedTask]
    /\ task_count = 0
    /\ ready_mask = 0
    /\ started = 0
    /\ tick_ms = ClampTickMs(1)
    /\ pc = "main"
    /\ caller = "user"
    /\ mask = 0
    /\ id = -1
    /\ result = NoResult
    /\ passStart = 0
    /\ passLog = <<>>
    /\ passTicks = 0
    /\ since = [i \in TaskIds |-> 0]
    /\ ran = [i \in TaskIds |-> FALSE]
    /\ plan \in TwinPlans
    /\ step = 0
    /\ turn = "manual"
    /\ trace = <<>>
    /\ args = NoArgs
    /\ threaded = <<>>
    /\ init_ms = NoArgs
    /\ irq = 0
    /\ timer = 0
    /\ isr = <<>>
    /\ sched \in Schedules
    /\ manual = <<>>

\* startup: the tasks of the plan are registered, in order
TwinAddTask ==
    /\ pc = "main"
    /\ step = 0
    /\ task_count < Len(plan)
    /\ AddTask(0, plan[task_count + 1], "cycle")
    /\ UNCHANGED driver

\* the schedule has a point left and gives it to who
TwinPoint(who) ==
    /\ task_count = Len(plan)
    /\ step < Len(sched)
    /\ sched[step + 1] = who

\* the bookkeeping of one schedule point
TwinStep(dispatched) ==
    /\ step' = step + 1
    /\ trace' = IF dispatched THEN Append(trace, id') ELSE trace
    /\ manual' = IF turn = "manual" THEN Append(manual, Snap') ELSE manual
    /\ UNCHANGED <<plan, turn, args, threaded, init_ms, port, sched>>

TwinTick ==
    /\ TwinPoint("tick")
    /\ TickIsr
    /\ TwinStep(FALSE)

TwinManualPoll ==
    /\ TwinPoint("main")
    /\ turn = "manual"
    /\ CallPoll
    /\ TwinStep(FALSE)

TwinStart ==
    /\ TwinPoint("main")
    /\ turn = "start"
    /\ Start
    /\ TwinStep(FALSE)

TwinIdle ==
    /\ TwinPoint("main")
    /\ IdleThenPoll
    /\ TwinStep(FALSE)

TwinDispatch ==
    /\ TwinPoint("main")
    /\ Dispatch
    /\ TwinStep(TRUE)

TwinReturn ==
    /\ TwinPoint("main")
    /\ ReturnFromPoll
    /\ TwinStep(FALSE)

TwinRun ==
    /\ TwinPoint("main")
    /\ RunCallable
    /\ TwinStep(FALSE)

TwinClear ==
    /\ TwinPoint("main")
    /\ ClearRunning
    /\ TwinStep(FALSE)

\* the manual run is over: reset, pulse_init, and the run with pulse_start
TwinRestart ==
    /\ turn = "manual"
    /\ task_count = Len(plan)
    /\ step = Len(sched)
    /\ tasks' = [i \in TaskIds |-> ClearedTask]
    /\ task_count' = 0
    /\ ready_mask' = 0
    /\ started' = 0
    /\ pc' = "main"
    /\ caller' = "user"
    /\ mask' = 0
    /\ id' = -1
    /\ result' = NoResult
    /\ passStart' = 0
    /\ passLog' = <<>>
    /\ passTicks' = 0
    /\ since' = [i \in TaskIds |-> 0]
    /\ ran' = [i \in TaskIds |-> FALSE]
    /\ UNCHANGED <<cfg, tick_ms>>
    /\ turn' = "start"
    /\ step' = 0
    /\ trace' = <<>>
    /\ UNCHANGED <<plan, args, threaded, init_ms, port, twin>>

NextTwin ==
    \/ TwinAddTask
    \/ TwinTick
    \/ TwinManualPoll
    \/ TwinStart
    \/ TwinIdle
    \/ TwinDispatch
    \/ TwinReturn
    \/ TwinRun
    \/ TwinClear
    \/ TwinRestart

SpecTwin == InitTwin /\ [][NextTwin]_vars

(***************************************************************************)
(* Vocabulary of the properties.                                           *)
(***************************************************************************)
Registered == {i \in TaskIds : i < task_count}

Ready(i) == MaskHas(ready_mask, pulse_task_bit(i))

StartSet == MaskIds(passStart)

LogIds == {passLog[n].id : n \in 1 .. Len(passLog)}

Runs(i) == Cardinality({n \in 1 .. Len(passLog) : passLog[n].id = i})

FirstRun(i) == CHOOSE n \in 1 .. Len(passLog) :
                   /\ passLog[n].id = i
                   /\ \A m \in 1 .. (n - 1) : passLog[m].id # i

\* the first critical section is about to find nothing ready: the pass is over
PassOver == pc = "poll_select" /\ pulse_find_lowest_set_bit(ready_mask) < 0

SinceGeqPeriod(i) == U32Geq(U32(since[i]), tasks[i].period_ticks)

C2_LowestOfCapturedMask ==
    pc \in {"poll_run", "poll_clear"} =>
        /\ id \in TaskIds
        /\ MaskHas(mask, pulse_task_bit(id))
        /\ \A i \in TaskIds : i < id => ~MaskHas(mask, pulse_task_bit(i))

\* task 0 was taken while task 1 was ready too
C2_Witness == pc = "poll_run" /\ id = 0 /\ MaskIds(mask) = {0, 1}

C5_NotReadyBeforePeriod ==
    \A i \in Registered : (ran[i] /\ Ready(i)) => SinceGeqPeriod(i)

\* a dispatched task of period 2 is ready again, exactly 2 ticks later
C5_Witness ==
    \E i \in Registered :
        ran[i] /\ Ready(i) /\ since[i] = 2 /\ tasks[i].period_ticks = U32(2)

(***************************************************************************)
(* C6                                                                      *)
(***************************************************************************)
\* C6, as stated: in every build, a ready bit is set only for a task that is
\* not running and whose elapsed_ticks >= period_ticks.
C6_ReadyImpliesDue ==
    \A i \in TaskIds :
        Ready(i) => /\ tasks[i].running = 0
                    /\ U32Geq(tasks[i].elapsed_ticks, tasks[i].period_ticks)

\* C6, amended: a ready bit is set only for a registered task that is not
\* running, and, in a build with the saturating policy, whose elapsed_ticks
\* >= period_ticks.
C6_ReadyImpliesDueSaturating ==
    \A i \in TaskIds :
        Ready(i) => /\ i \in Registered
                    /\ tasks[i].running = 0
                    /\ cfg_saturate = 1 =>
                           U32Geq(tasks[i].elapsed_ticks, tasks[i].period_ticks)

\* saturating build: task 1 is ready, saturated, while task 0 runs
C6_Witness ==
    /\ cfg_saturate = 1
    /\ Ready(1)
    /\ tasks[1].elapsed_ticks = UINT32_MAX
    /\ tasks[0].running = 1

(***************************************************************************)
(* C7                                                                      *)
(***************************************************************************)
\* C7: at most one descriptor is running, it is the one pulse_poll has taken
\* and not yet finished, and none is running when pulse_poll looks for the
\* next ready task or is not executing.
C7_OneRunsToCompletion ==
    /\ Cardinality({i \in TaskIds : tasks[i].running # 0}) <= 1
    /\ \A i \in TaskIds :
           tasks[i].running # 0 => (pc \in {"poll_run", "poll_clear"} /\ id = i)
    /\ pc \in {"poll_run", "poll_clear"} => tasks[id].running = 1

\* task 1 runs while task 0, already run in this pass, is ready again
C7_Witness == tasks[1].running = 1 /\ Ready(0) /\ 0 \in LogIds

(***************************************************************************)
(* C8                                                                      *)
(***************************************************************************)
\* C8: pulse_tick_isr changes only elapsed_ticks of registered tasks and the
\* ready mask: state, running, period_ticks and tick of every descriptor, the
\* unregistered descriptors, task_count, started and tick_ms stay as they are,
\* and no callable is invoked (no dispatch is added to the pass).
C8_TickFrame ==
    [][pulse_tick_isr =>
          /\ \A i \in TaskIds :
                 /\ tasks'[i].state = tasks[i].state
                 /\ tasks'[i].running = tasks[i].running
                 /\ tasks'[i].period_ticks = tasks[i].period_ticks
                 /\ tasks'[i].tick = tasks[i].tick
                 /\ i >= task_count => tasks'[i] = tasks[i]
          /\ task_count' = task_count
          /\ started' = started
          /\ tick_ms' = tick_ms
          /\ passLog' = passLog
          /\ ran' = ran
          /\ pc' = pc]_vars

\* ticks were bookkept while pulse_start's loop had task 0 running
C8_Witness ==
    /\ started = 1
    /\ task_count = 1
    /\ tasks[0].running = 1
    /\ tasks[0].state = 1
    /\ since[0] > 0

(***************************************************************************)
(* C9                                                                      *)
(***************************************************************************)
\* C9: a task not yet dispatched is, under the immediate policy, ready from
\* its registration on (before any tick), and a pass that is over has
\* dispatched it; under the deferred policy it is ready exactly when
\* period_ticks ticks or more were bookkept since its registration.
C9_FirstRelease ==
    /\ \A i \in Registered :
           ~ran[i] => IF cfg_run_immediately = 1
                      THEN Ready(i)
                      ELSE Ready(i) <=> SinceGeqPeriod(i)
    /\ (PassOver /\ cfg_run_immediately = 1) => \A i \in Registered : ran[i]

\* deferred policy: task of period 2, never dispatched, ready at its 2nd tick
C9_Witness ==
    /\ cfg_run_immediately = 0
    /\ \E i \in Registered :
           ~ran[i] /\ Ready(i) /\ since[i] = 2 /\ tasks[i].period_ticks = U32(2)

(***************************************************************************)
(* C10                                                                     *)
(***************************************************************************)
\* C10, as stated: in every build, no pulse_tick_isr makes an elapsed_ticks
\* smaller, and a saturating build leaves 0xFFFFFFFF at 0xFFFFFFFF.
C10_TickNeverDecreases ==
    [][pulse_tick_isr =>
          \A i \in TaskIds :
              /\ U32Geq(tasks'[i].elapsed_ticks, tasks[i].elapsed_ticks)
              /\ (cfg_saturate = 1 /\ tasks[i].elapsed_ticks = UINT32_MAX)
                     => tasks'[i].elapsed_ticks = UINT32_MAX]_vars

\* C10, amended: in a saturating build no pulse_tick_isr makes an
\* elapsed_ticks smaller and 0xFFFFFFFF stays 0xFFFFFFFF; in a wrapping build
\* the only decrease by pulse_tick_isr is the wrap from 0xFFFFFFFF to 0.  In
\* every build an elapsed_ticks gets smaller only by that wrap, by the
\* task's dispatch or by pulse_init, and then it is 0.
C10_DecreaseOnlyByWrap ==
    [][\A i \in TaskIds :
          /\ (pulse_tick_isr /\ cfg_saturate = 1) =>
                 /\ U32Geq(tasks'[i].elapsed_ticks, tasks[i].elapsed_ticks)
                 /\ tasks[i].elapsed_ticks = UINT32_MAX
                        => tasks'[i].elapsed_ticks = UINT32_MAX
          /\ U32Lt(tasks'[i].elapsed_ticks, tasks[i].elapsed_ticks) =>
                 /\ tasks'[i].elapsed_ticks = U32(0)
                 /\ \/ pc = "poll_select" /\ pc' = "poll_run" /\ id' = i
                    \/ pc = "main" /\ task_count' = 0
                    \/ /\ pulse_tick_isr
                       /\ cfg_saturate = 0
                       /\ tasks[i].elapsed_ticks = UINT32_MAX]_vars

\* saturating build: task 0 sits at 0xFFFFFFFF, reached by a tick
C10_Witness ==
    /\ cfg_saturate = 1
    /\ task_count > 0
    /\ tasks[0].elapsed_ticks = UINT32_MAX

(***************************************************************************)
(* Lockstep runs: vocabulary.                                              *)
(***************************************************************************)
IsPrefix(a, b) == Len(a) <= Len(b) /\ SubSeq(b, 1, Len(a)) = a

\* drive_ticks has completed the poll of time step s
StepDone(s) == step = s /\ turn = "tick" /\ pc = "main" /\ task_count = Len(plan)

\* the executions of time step s under the immediate-ready policy, from the
\* i-th registered task on: the tasks with (s - 1) a multiple of their period
RECURSIVE StepRuns(_, _, _)
StepRuns(pl, s, i) ==
    IF i > Len(pl) THEN <<>>
    ELSE (IF (s - 1) % pl[i] = 0 THEN << <<s, i - 1>> >> ELSE <<>>)
             \o StepRuns(pl, s, i + 1)

\* the executions of the time steps 1 .. s
RECURSIVE Schedule(_, _)
Schedule(pl, s) ==
    IF s <= 0 THEN <<>> ELSE Schedule(pl, s - 1) \o StepRuns(pl, s, 1)

(***************************************************************************)
(* C11                                                                     *)
(***************************************************************************)
\* task X = id 0 (period 2), task Y = id 1 (period 3), immediate-ready policy
ScenarioA == plan = <<2, 3>> /\ cfg_run_immediately = 1

TraceA == << <<1, 0>>, <<1, 1>>, <<3, 0>>, <<4, 1>>, <<5, 0>> >>

\* C11: in scenario A, when tick-then-poll has been done six times the
\* executions logged are exactly (1,X), (1,Y), (3,X), (4,Y), (5,X), and up to
\* there the log is at every moment a prefix of that trace.
C11_ScenarioATrace ==
    ScenarioA => /\ StepDone(6) => trace = TraceA
                 /\ step <= 6 => IsPrefix(trace, TraceA)

\* scenario A has been driven for its six time steps
C11_Witness == ScenarioA /\ StepDone(6) /\ Len(trace) = 5

(***************************************************************************)
(* C12                                                                     *)
(***************************************************************************)
\* X = id 0 (period 4), Y = id 1 (period 2), Z = id 2 (period 6)
ScenarioB == plan = <<4, 2, 6>> /\ cfg_run_immediately = 1

TraceB == << <<1, 0>>, <<1, 1>>, <<1, 2>>, <<3, 1>>, <<5, 0>>, <<5, 1>> >>

\* C12: in scenario B, when tick-then-poll has been done five times the
\* executions logged are exactly (1,X), (1,Y), (1,Z), (3,Y), (5,X), (5,Y):
\* tasks due in the same time step run in registration order.
C12_ScenarioBTrace ==
    ScenarioB => /\ StepDone(5) => trace = TraceB
                 /\ step <= 5 => IsPrefix(trace, TraceB)

\* scenario B has been driven for its five time steps
C12_Witness == ScenarioB /\ StepDone(5) /\ Len(trace) = 6

(***************************************************************************)
(* C13                                                                     *)
(***************************************************************************)
\* C13: under the immediate-ready policy, whatever tasks are registered, a
\* lockstep run executes the task of period P exactly in the time steps
\* 1, 1 + P, 1 + 2P, ..., once each, and the tasks of one time step in
\* registration order: after every completed time step the log is the
\* schedule up to that step, and inside a step it lies between the schedule
\* of the step before and the schedule of the step.
C13_LockstepSchedule ==
    cfg_run_immediately = 1 =>
        /\ StepDone(step) => trace = Schedule(plan, step)
        /\ IsPrefix(trace, Schedule(plan, step))
        /\ IsPrefix(Schedule(plan, step - 1), trace)

\* three tasks, two of period 1 around one of period 3, driven for four steps:
\* the period-1 tasks ran in each step, the other in steps 1 and 4
C13_Witness ==
    /\ cfg_run_immediately = 1
    /\ plan = <<1, 3, 1>>
    /\ StepDone(4)
    /\ Len(trace) = 10

(***************************************************************************)
(* Registration: vocabulary.                                               *)
(***************************************************************************)
\* result and args are those of a pulse_add_task call that has just returned
Returned == result # NoResult /\ args # NoArgs

\* the call appended a descriptor
Appended == task_count' = task_count + 1

\* the arguments args' pass the validation of period and callable
ValidArgs == args'[1] > 0 /\ (cfg_null_guard = 1 => args'[2] # NULL)

(***************************************************************************)
(* C14                                                                     *)
(***************************************************************************)
\* C14, as stated: a pulse_add_task call that appends a descriptor returns
\* the index of that descriptor, the number of tasks registered before it.
C14_ReturnsIndex ==
    [][(RegisterCall /\ Appended) => result' = <<task_count>>]_vars

\* C14, amended: a pulse_add_task call that appends a descriptor fills the
\* descriptor at the index equal to the number of tasks registered before
\* (that index is the task's id) with the period and callable passed, leaves
\* every other descriptor as it was, and returns 0, not the id.
C14_AppendsAtCountReturnsZero ==
    [][(RegisterCall /\ Appended) =>
          /\ tasks'[task_count].period_ticks = U32(args'[1])
          /\ tasks'[task_count].tick = args'[2]
          /\ tasks'[task_count].running = 0
          /\ \A i \in TaskIds : i # task_count => tasks'[i] = tasks[i]
          /\ \A i \in TaskIds : i < task_count =>
                 (MaskHas(ready_mask', pulse_task_bit(i))
                      <=> MaskHas(ready_mask, pulse_task_bit(i)))
          /\ result' = <<0>>]_vars

\* the second registration has returned: id 1 was assigned, 0 was returned
C14_Witness ==
    /\ Returned
    /\ result = <<0>>
    /\ task_count = 2
    /\ tasks[1].period_ticks = U32(args[1])

(***************************************************************************)
(* C15                                                                     *)
(***************************************************************************)
\* C15: pulse_add_task returns 0 exactly when it registers a task, however
\* many are registered already, and a negative value, with nothing
\* registered, otherwise.
C15_ZeroOrNegative ==
    [][RegisterCall =>
          IF Appended
          THEN result' = <<0>>
          ELSE /\ task_count' = task_count
               /\ Len(result') = 1
               /\ result'[1] < 0]_vars

\* the registration that fills the table has returned 0
C15_Witness ==
    /\ Returned
    /\ result = <<0>>
    /\ task_count = cfg_max_tasks
    /\ task_count > 1

(***************************************************************************)
(* C16                                                                     *)
(***************************************************************************)
\* C16: a pulse_add_task call with period_ticks = 0 returns InvalidPeriod
\* and leaves the kernel as it was: every descriptor, task_count,
\* ready_mask, started and tick_ms.
C16_PeriodZeroRejected ==
    [][(RegisterCall /\ args'[1] = 0) =>
          /\ result' = <<InvalidPeriod>>
          /\ UNCHANGED kernel]_vars

\* period 0 was rejected with a task registered and ready
C16_Witness ==
    /\ Returned
    /\ args[1] = 0
    /\ result = <<InvalidPeriod>>
    /\ task_count = 1
    /\ Ready(0)

C18_ValidationOrder ==
    /\ Returned =>
           /\ args[1] = 0 => result = <<InvalidPeriod>>
           /\ (args[1] > 0 /\ cfg_null_guard = 1 /\ args[2] = NULL)
                  => result = <<NullFunction>>
           /\ result = <<CapacityExceeded>> =>
                  /\ args[1] > 0
                  /\ cfg_null_guard = 1 => args[2] # NULL
                  /\ task_count = cfg_max_tasks
    /\ InvalidPeriod # NullFunction
    /\ InvalidPeriod # CapacityExceeded
    /\ NullFunction # CapacityExceeded

\* period 0 with a null callable at a full registry: InvalidPeriod
C18_Witness ==
    /\ Returned
    /\ args = <<0, NULL>>
    /\ task_count = cfg_max_tasks
    /\ result = <<InvalidPeriod>>

(***************************************************************************)
(* C19                                                                     *)
(***************************************************************************)
\* C19: task_count never exceeds the capacity of the build.
C19_CountWithinCapacity == task_count <= cfg_max_tasks

\* the table is full and a further registration has been refused
C19_Witness == task_count = cfg_max_tasks /\ result = <<CapacityExceeded>>

(***************************************************************************)
(* C20                                                                     *)
(***************************************************************************)
\* C20: every registered descriptor has period_ticks > 0.
C20_PeriodPositive ==
    \A i \in Registered : U32Lt(U32(0), tasks[i].period_ticks)

\* a registration with period 0 has been refused after one that registered
C20_Witness ==
    /\ task_count = 1
    /\ result = <<InvalidPeriod>>
    /\ tasks[0].period_ticks = U32(MaxPeriod)

(***************************************************************************)
(* C21                                                                     *)
(***************************************************************************)
\* C21: a step that is not a pulse_init call (a tick, a step of pulse_poll
\* or pulse_start, a pulse_add_task call that registers or fails) never
\* lowers task_count and leaves period_ticks and tick of every registered
\* descriptor, hence the descriptor at every registered index, as they were;
\* task_count gets lower only by pulse_init, which makes it 0.
C21_RegistrationsImmutable ==
    [][/\ ~pulse_init =>
              /\ task_count' >= task_count
              /\ \A i \in Registered :
                     /\ tasks'[i].period_ticks = tasks[i].period_ticks
                     /\ tasks'[i].tick = tasks[i].tick
       /\ task_count' < task_count => (pulse_init /\ task_count' = 0)]_vars

\* task 0 was dispatched and ticked, then task 1 was registered behind it
C21_Witness ==
    /\ task_count = 2
    /\ result = <<0>>
    /\ ran[0]
    /\ since[0] > 0
    /\ tasks[0].period_ticks = U32(MaxPeriod)

(***************************************************************************)
(* C22                                                                     *)
(***************************************************************************)
\* C22: the state stored for a registered task is at every moment the state
\* its callable is to receive next - the init_state of its registration
\* until its first invocation, then the value its last invocation returned -
\* and it changes only when that task's callable returns, to the value
\* returned for the stored state: no tick, no dispatch or run of another
\* task and no registration of another task changes it.
C22_StateThreading ==
    [][/\ \A i \in Registered : tasks[i].state = threaded[i]
       /\ \A i \in Registered :
              tasks'[i].state # tasks[i].state =>
                  /\ pc = "poll_run"
                  /\ id = i
                  /\ tasks'[i].state = Call(tasks[i].tick, tasks[i].state)]_vars

\* both tasks were invoked more than once; task 1 is running while task 0,
\* ticked since its last run, keeps the state that run returned
C22_Witness ==
    /\ task_count = 2
    /\ tasks[0].state = 1
    /\ tasks[1].state = 2
    /\ ran[0] /\ ran[1]
    /\ tasks[1].running = 1
    /\ since[0] > 0

C29_WrapKeepsBitAndWaits ==
    [][(pulse_tick_isr /\ cfg_saturate = 0) =>
          \A i \in Registered :
              /\ tasks[i].elapsed_ticks = UINT32_MAX
                     => tasks'[i].elapsed_ticks = U32(0)
              /\ Ready(i) => MaskHas(ready_mask', pulse_task_bit(i))
              /\ (~Ready(i) /\ MaskHas(ready_mask', pulse_task_bit(i))) =>
                     /\ tasks'[i].running = 0
                     /\ U32Geq(tasks'[i].elapsed_ticks, tasks'[i].period_ticks)]_vars

\* wrapping build: task 0 wrapped while it ran (more ticks since its dispatch
\* than its elapsed_ticks shows) and is ready again, its elapsed_ticks back
\* at its period of 2
C29_Witness ==
    /\ cfg_saturate = 0
    /\ since[0] = ElapsedCap
    /\ tasks[0].period_ticks = U32(2)
    /\ tasks[0].elapsed_ticks = U32(2)
    /\ tasks[0].running = 0
    /\ Ready(0)

(***************************************************************************)
(* C23                                                                     *)
(***************************************************************************)
\* C23: pulse_init(t), called before or after tasks were registered, made
\* ready or the kernel was started, leaves task_count = 0, an empty
\* ready_mask, started = 0 and every descriptor cleared; and tick_ms is
\* max(t, 1) for the t of the latest pulse_init, in every state up to the
\* next one.
C23_InitResets ==
    [][/\ PortInit =>
              /\ task_count' = 0
              /\ ready_mask' = 0
              /\ started' = 0
              /\ \A i \in TaskIds :
                     /\ tasks'[i].running = 0
                     /\ tasks'[i].elapsed_ticks = U32(0)
                     /\ tasks'[i] = ClearedTask
       /\ Len(init_ms') = 1
       /\ tick_ms' = IF init_ms'[1] > 1 THEN init_ms'[1] ELSE 1]_vars

\* pulse_init(0) has just returned to the idle hook of a kernel that had
\* been started with a period of 5 ms
C23_Witness ==
    /\ pc = "start_idle"
    /\ timer = 5
    /\ init_ms = <<0>>
    /\ tick_ms = 1
    /\ started = 0
    /\ task_count = 0
    /\ irq = 0

(***************************************************************************)
(* C24                                                                     *)
(***************************************************************************)
\* C24: pulse_start() with started set changes neither the kernel nor the
\* timer nor the interrupt flag and enters the idle loop, which is never
\* left and in which no task is dispatched (no running flag is set, no
\* state changes, no ready bit is cleared) and the timer is not re-armed;
\* pulse_start() with started clear sets started, arms the timer with
\* tick_ms, enables interrupts and enters pulse_poll; when that pulse_poll
\* returns the idle hook runs, and after the idle hook pulse_poll is entered
\* again: the loop never returns to the application.
C24_StartOnceThenIdle ==
    [][/\ PortStartAgain =>
              (pc' = "idle_forever" /\ UNCHANGED <<kernel, port>>)
       /\ pc = "idle_forever" =>
              /\ pc' = "idle_forever"
              /\ timer' = timer
              /\ started' = started
              /\ \A i \in Registered :
                     /\ tasks'[i].running = 0
                     /\ tasks'[i].state = tasks[i].state
                     /\ Ready(i) => MaskHas(ready_mask', pulse_task_bit(i))
       /\ PortStart =>
              /\ started' = 1
              /\ timer' = tick_ms
              /\ irq' = 1
              /\ pc' = "poll_select"
       /\ (caller = "start" /\ pc = "poll_exit" /\ id < 0 /\ pc' # pc) =>
              pc' = "start_idle"
       /\ (pc = "start_idle" /\ pc' # pc) =>
              pc' \in {"poll_select", "idle_forever"}
       /\ caller' = "start" => pc' # "main"]_vars

\* in the idle loop that never ends, ticks have made task 0 ready and went
\* on counting; it is not dispatched
C24_Witness ==
    /\ pc = "idle_forever"
    /\ started = 1
    /\ timer > 0
    /\ task_count >= 1
    /\ Ready(0)
    /\ tasks[0].running = 0
    /\ tasks[0].elapsed_ticks = U32(ElapsedCap)

(***************************************************************************)
(* C26                                                                     *)
(***************************************************************************)
\* the positions of pulse_poll between its first PULSE_PORT_ENTER_CRITICAL
\* and the PULSE_PORT_EXIT_CRITICAL that follows
PollSection ==
    {"poll_capture", "poll_bit", "poll_running", "poll_elapsed", "poll_exit"}

\* C26: while pulse_poll is between the capture of ready_mask and the exit of
\* its first critical section, interrupts are disabled and no pulse_tick_isr
\* is active, so a tick sees none or all of the four effects; the section
\* changes the descriptor and the bit of the selected task only (what ticks
\* before it did to the other tasks survives); and it is left for the
\* callable with the bit clear, running set and elapsed_ticks 0.
C26_PollSectionAtomic ==
    [][/\ pc' \in PollSection => (irq' = 0 /\ isr' = <<>>)
       /\ pc \in PollSection =>
              \A j \in Registered :
                  j # id' =>
                      /\ tasks'[j] = tasks[j]
                      /\ Ready(j) => MaskHas(ready_mask', pulse_task_bit(j))
       /\ (pc = "poll_exit" /\ pc' = "poll_run") =>
              /\ mask = ready_mask + pulse_task_bit(id)
              /\ ~Ready(id)
              /\ tasks[id].running = 1
              /\ tasks[id].elapsed_ticks = U32(0)]_vars

\* about to leave the section with task 0 taken, while the bit and the
\* elapsed_ticks that two earlier ticks gave task 1 are intact
C26_Witness ==
    /\ pc = "poll_exit"
    /\ cfg_run_immediately = 0
    /\ id = 0
    /\ irq = 0
    /\ timer > 0
    /\ ~Ready(0)
    /\ tasks[0].running = 1
    /\ tasks[0].elapsed_ticks = U32(0)
    /\ Ready(1)
    /\ tasks[1].elapsed_ticks = U32(2)

(***************************************************************************)
(* C27                                                                     *)
(***************************************************************************)
\* C27: an invocation of pulse_tick_isr that has incremented elapsed_ticks
\* of a task and is about to test it is inside the critical section it
\* entered with PULSE_PORT_ENTER_CRITICAL.
C27_TickSequenceInCritical ==
    \A k \in 1 .. Len(isr) : isr[k].at = "test" => isr[k].cs

(***************************************************************************)
(* C30                                                                     *)
(***************************************************************************)
\* C30: pulse_init called with interrupts enabled returns with interrupts
\* enabled.
C30_InitRestoresInterrupts ==
    [][(PortInit /\ irq = 1) => irq' = 1]_vars

(***************************************************************************)
(* C25                                                                     *)
(***************************************************************************)
\* C25: with the same tasks registered and the same schedule of timer
\* expiries and main-context steps, the run that uses pulse_start shows at
\* every schedule point what the manual run showed there: the same
\* descriptors, the same ready_mask, the same sequence of dispatched task
\* ids and the same position of the main context.
C25_StartMatchesManual ==
    (turn = "start" /\ step > 0) => Snap = manual[step]

\* the run with pulse_start has reached the end of a schedule with ticks in
\* it, in a build where only ticks make tasks ready; tasks 0 and 1 have been
\* dispatched, as the manual run did
C25_Witness ==
    /\ turn = "start"
    /\ started = 1
    /\ step = Len(sched)
    /\ cfg_run_immediately = 0
    /\ trace = <<0, 1>>
    /\ manual[step].dispatched = <<0, 1>>
    /\ tasks[0].state = 1

(***************************************************************************)
(* C31                                                                     *)
(***************************************************************************)
\* C31: pulse_tick_isr is never re-entered while it iterates: an invocation
\* that another one has interrupted has no task of the table left to visit.
C31_TickNotReentered ==
    \A k \in 1 .. (Len(isr) - 1) : isr[k].i >= task_count

====
